---- MODULE Spec2Model ----
(***************************************************************************)
(* Model of badge-quest: the toast notification service                    *)
(* (src/src/toast/toast.service.ts) and the calendar helpers of            *)
(* src/src/utils/date.utils.ts.                                            *)
(*                                                                         *)
(* The service keeps its list in an RxJS BehaviorSubject.  The subject is  *)
(* modelled by what next/subscribe/unsubscribe do: next stores the value   *)
(* and then hands it to a snapshot of the subscribers, one after the       *)
(* other, synchronously; a subscriber's callback may itself call the       *)
(* service before the remaining subscribers have been served.              *)
(***************************************************************************)
EXTENDS Integers, Sequences, FiniteSets, TLC

VARIABLES
  toasts,     \* _toasts$.getValue(): the active list, in insertion order
  subs,       \* the subject's observers array, in subscription order
  status,     \* per observer: "idle" (never subscribed), "open", "closed"
  reaction,   \* per observer: what its callback does with a value
  timers,     \* pending one-shot timers created by show
  now,        \* Date.now(), in milliseconds
  shown,      \* number of toasts created so far
  last,       \* the operation that produced this state
  published,  \* the values handed to next() during that operation, in order
  recv,       \* per observer: the values it received during that operation
  cal         \* inputs and results of the calendar helpers

vars == <<toasts, subs, status, reaction, timers, now, shown, last,
          published, recv, cal>>

toastVars == <<toasts, subs, status, reaction, timers, now, shown,
               last, published, recv>>

\* ------------------------------------------------------------------------
\* Bounds
\* ------------------------------------------------------------------------
MaxShows == 2
MaxObservedShows == 1
MaxFairShows == 1
NumObservers == 2
MaxYear == 104

Observers == 1..NumObservers
ToastTypes == {"success", "error", "warning", "info"}
\* (message, duration?) as passed to an entry point; the optional duration is
\* <<>> when not given and <<d>> when it is d
ShowArgs == {<<"Saved", <<>>>>, <<"", <<0>>>>, <<"Saved", <<-1>>>>}
\* error, warning and info differ from success in the default lifetime only:
\* they are called with the default
DefaultArgs == {<<"Saved", <<>>>>}
\* Math.random().toString(36).slice(2, 7); "" is what Math.random() = 0 gives
RandomSuffixes == {"", "i"}
Reactions == {"passive", "clear", "dismissHead"}
Years == ((-4)..MaxYear) \cup {1900, 2000, 2024, 2100}

\* ------------------------------------------------------------------------
\* date.utils.ts: calendar helpers
\* ------------------------------------------------------------------------
\* JavaScript's % : the remainder takes the sign of the dividend
JsRem(a, b) == IF a >= 0 THEN a % b ELSE -((-a) % b)

isLeapYear(year) ==
  (JsRem(year, 4) = 0 /\ JsRem(year, 100) # 0) \/ JsRem(year, 400) = 0

\* ECMAScript day arithmetic behind new Date(y, m, d) and getDate()
DayFromYear(y) ==
  365 * (y - 1970) + ((y - 1969) \div 4) - ((y - 1901) \div 100)
    + ((y - 1601) \div 400)

DaysInYear(y) == DayFromYear(y + 1) - DayFromYear(y)

\* days of the year before 0-based month m
DaysBeforeMonth(m, leap) ==
  LET base == <<0, 31, 59, 90, 120, 151, 181, 212, 243, 273, 304, 334>>
  IN base[m + 1] + (IF leap /\ m >= 2 THEN 1 ELSE 0)

MakeDay(year, month, date) ==
  LET ym == year + (month \div 12)
      mn == month % 12
  IN DayFromYear(ym) + DaysBeforeMonth(mn, DaysInYear(ym) = 366) + date - 1

YearFromDay(day) ==
  CHOOSE y \in (-5)..2401 :
    DayFromYear(y) <= day /\ day < DayFromYear(y + 1)

DateFromDay(day) ==
  LET y    == YearFromDay(day)
      leap == DaysInYear(y) = 366
      diy  == day - DayFromYear(y)
      m    == CHOOSE k \in 0..11 :
                /\ DaysBeforeMonth(k, leap) <= diy
                /\ (k = 11 \/ diy < DaysBeforeMonth(k + 1, leap))
  IN diy - DaysBeforeMonth(m, leap) + 1

\* the Date constructor reads a year 0..99 as 1900 + year
DateCtorYear(year) == IF 0 <= year /\ year <= 99 THEN 1900 + year ELSE year

\* new Date(year, month, 0).getDate(); both sides work in local time, so the
\* zone offset drops out
daysInMonth(year, month) ==
  DateFromDay(MakeDay(DateCtorYear(year), month, 0))

\* ------------------------------------------------------------------------
\* toast.service.ts: data
\* ------------------------------------------------------------------------
\* a faulty variant: the defaults of success and info exchanged
DefaultDurationSwapped ==
  [success |-> 5000, info |-> 4000, warning |-> 6000, error |-> 8000]

DEFAULT_DURATION ==
  [success |-> 4000, info |-> 5000, warning |-> 6000, error |-> 8000]

\* `toast-${Date.now()}-${Math.random().toString(36).slice(2, 7)}`
generateId(ms, rnd) == <<"toast", ms, rnd>>

\* duration ?? DEFAULT_DURATION[type]
resolveDuration(type, duration) ==
  IF duration = <<>> THEN DEFAULT_DURATION[type] ELSE duration[1]

\* The Toast object built by show.  uid is the identity of the object: two
\* toasts can agree on every field of the interface and still be two objects.
Toast(uid, ms, rnd, message, type, duration) ==
  [uid       |-> uid,
   id        |-> generateId(ms, rnd),
   message   |-> message,
   type      |-> type,
   duration  |-> resolveDuration(type, duration),
   createdAt |-> ms]

\* a faulty variant: [toast, ...this._toasts$.getValue()]
prepended(ts, toast) == <<toast>> \o ts

\* [...this._toasts$.getValue(), toast]
appended(ts, toast) == Append(ts, toast)

\* a faulty variant: list.splice(list.findIndex(t => t.id === id), 1), which
\* takes the last element out when findIndex answers -1
withoutBySplice(ts, id) ==
  LET hits == {i \in 1..Len(ts) : ts[i].id = id}
      k    == IF hits = {} THEN Len(ts)
              ELSE CHOOSE i \in hits : \A j \in hits : i <= j
  IN [i \in 1..(IF ts = <<>> THEN 0 ELSE Len(ts) - 1) |->
        IF i < k THEN ts[i] ELSE ts[i + 1]]

\* this._toasts$.getValue().filter(t => t.id !== id)
without(ts, id) == SelectSeq(ts, LAMBDA t : t.id # id)

\* a faulty variant: the timer observable is built but never subscribed to,
\* so it never runs
timerNever(toast, ms) == {}

\* a faulty variant: if (resolvedDuration) instead of if (resolvedDuration > 0)
timerIfNonZero(toast, ms) ==
  IF toast.duration # 0
  THEN {[uid |-> toast.uid, id |-> toast.id, due |-> ms + toast.duration]}
  ELSE {}

\* if (resolvedDuration > 0) timer(resolvedDuration)...subscribe()
timerFor(toast, ms) ==
  IF toast.duration > 0
  THEN {[uid |-> toast.uid, id |-> toast.id, due |-> ms + toast.duration]}
  ELSE {}

\* ------------------------------------------------------------------------
\* The subject: publishing to observers
\* ------------------------------------------------------------------------
\* The part of the state one service call works on.
Machine ==
  [toasts    |-> toasts,
   subs      |-> subs,
   status    |-> status,
   reaction  |-> reaction,
   published |-> <<>>,
   recv      |-> [o \in Observers |-> <<>>]]

RECURSIVE next(_, _), deliver(_, _, _), onValue(_, _, _), dismiss(_, _),
          dismissAll(_)

\* BehaviorSubject.next: store the value, then serve a snapshot of the
\* observers array in order.
next(m, value) ==
  LET m1 == [m EXCEPT !.toasts = value, !.published = Append(@, value)]
  IN deliver(m1, m1.subs, value)

\* The loop over the snapshot.  A subscriber closed in the meantime is skipped.
deliver(m, snapshot, value) ==
  IF snapshot = <<>> THEN m
  ELSE LET o  == Head(snapshot)
           m1 == IF m.status[o] = "open"
                 THEN onValue([m EXCEPT !.recv[o] = Append(@, value)], o, value)
                 ELSE m
       IN deliver(m1, Tail(snapshot), value)

\* An observer's callback.  A passive observer only looks at the value; the
\* others call the service from inside the callback.
onValue(m, o, value) ==
  CASE m.reaction[o] = "passive"     -> m
    [] m.reaction[o] = "clear"       ->
         IF value # <<>> THEN dismissAll(m) ELSE m
    [] m.reaction[o] = "dismissHead" ->
         IF value # <<>> THEN dismiss(m, value[1].id) ELSE m

\* a faulty variant: dismiss returns early when no toast has the id
dismissIfFound(m, id) ==
  IF without(m.toasts, id) = m.toasts THEN m
  ELSE next(m, without(m.toasts, id))

dismiss(m, id) == next(m, without(m.toasts, id))

dismissAll(m) == next(m, <<>>)

show(m, toast) == next(m, appended(m.toasts, toast))

\* toasts$.subscribe(callback): the subscriber joins the observers array and
\* is handed the current value at once.
subscribe(m, o, r) ==
  LET m1 == [m EXCEPT !.subs = Append(@, o), !.status[o] = "open",
                      !.reaction[o] = r, !.recv[o] = Append(@, m.toasts)]
  IN onValue(m1, o, m.toasts)

\* subscription.unsubscribe()
unsubscribe(m, o) ==
  [m EXCEPT !.subs = SelectSeq(@, LAMBDA x : x # o), !.status[o] = "closed"]

\* ------------------------------------------------------------------------
\* Operations
\* ------------------------------------------------------------------------
Uids(ts) == {ts[i].uid : i \in 1..Len(ts)}

UnknownId == <<"toast", 0, "zz">>

\* The record of a call: what it was given, how it ended, and which toasts it
\* took out of the active list.  No operation of the service has a throw
\* statement, and all of them return void.
Op(name, id, uid, message, durArg, after) ==
  [op      |-> name,
   id      |-> id,            \* the id dismissed, or the id generated
   uid     |-> uid,           \* the toast created, the timer's toast, the observer
   message |-> message,       \* show: the message argument
   durArg  |-> durArg,        \* show: the duration argument
   ret     |-> <<>>,          \* the value returned: <<>> is void
   err     |-> "none",        \* the error thrown
   removed |-> {toasts[i] : i \in {j \in 1..Len(toasts) :
                                     toasts[j].uid \notin Uids(after)}}]

Commit(m) ==
  /\ toasts' = m.toasts
  /\ subs' = m.subs
  /\ status' = m.status
  /\ reaction' = m.reaction
  /\ published' = m.published
  /\ recv' = m.recv

\* private show(message, type, duration?), reached through the four public
\* entry points; all of them return void.
Show(message, type, duration, rnd) ==
  LET toast == Toast(shown + 1, now, rnd, message, type, duration)
      m     == show(Machine, toast)
  IN /\ Commit(m)
     /\ timers' = timers \cup timerFor(toast, now)
     /\ last' = Op("show", toast.id, toast.uid, message, duration, m.toasts)
     /\ shown' = shown + 1
     /\ UNCHANGED <<now, cal>>

Success(message, duration, rnd) == Show(message, "success", duration, rnd)

Error(message, duration, rnd) == Show(message, "error", duration, rnd)

Warning(message, duration, rnd) == Show(message, "warning", duration, rnd)

Info(message, duration, rnd) == Show(message, "info", duration, rnd)

\* ids a caller can pass to dismiss: one of an active toast, the one of the
\* call just made (a second dismiss in succession), or one never issued
DismissArgs ==
  {toasts[i].id : i \in 1..Len(toasts)} \cup {last.id} \cup {UnknownId}

Dismiss(id) ==
  LET m == dismiss(Machine, id)
  IN /\ Commit(m)
     /\ last' = Op("dismiss", id, 0, "", <<>>, m.toasts)
     /\ UNCHANGED <<timers, now, shown, cal>>

DismissAll ==
  LET m == dismissAll(Machine)
  IN /\ Commit(m)
     /\ last' = Op("dismissAll", UnknownId, 0, "", <<>>, m.toasts)
     /\ UNCHANGED <<timers, now, shown, cal>>

\* timer(resolvedDuration).pipe(tap(() => this.dismiss(toast.id)))
TimerFire(t) ==
  LET m == dismiss(Machine, t.id)
  IN /\ t \in timers
     /\ now >= t.due
     /\ Commit(m)
     /\ timers' = timers \ {t}
     /\ last' = Op("timer", t.id, t.uid, "", <<>>, m.toasts)
     /\ UNCHANGED <<now, shown, cal>>

\* Time passes.  Only show reads the clock, so a millisecond passing matters
\* only after a toast was created in the current one; beyond that the clock
\* moves on to the moment a pending timer is due.
Elapse(t) ==
  /\ t > now
  /\ \/ t = now + 1 /\ \E i \in 1..Len(toasts) : toasts[i].createdAt = now
     \/ \E x \in timers : x.due = t
  /\ now' = t
  /\ last' = Op("elapse", UnknownId, 0, "", <<>>, toasts)
  /\ published' = <<>>
  /\ recv' = [o \in Observers |-> <<>>]
  /\ UNCHANGED <<toasts, subs, status, reaction, timers, shown, cal>>

\* Observers are interchangeable, so they subscribe in the order of their
\* numbers.
Subscribe(o, r) ==
  LET m == subscribe(Machine, o, r)
  IN /\ status[o] = "idle"
     /\ \A x \in Observers : x < o => status[x] # "idle"
     /\ Commit(m)
     /\ last' = Op("subscribe", UnknownId, o, "", <<>>, m.toasts)
     /\ UNCHANGED <<timers, now, shown, cal>>

Unsubscribe(o) ==
  /\ status[o] = "open"
  /\ Commit(unsubscribe(Machine, o))
  /\ last' = Op("unsubscribe", UnknownId, o, "", <<>>, toasts)
  /\ UNCHANGED <<timers, now, shown, cal>>

\* ------------------------------------------------------------------------
\* Calendar helpers as operations on their inputs
\* ------------------------------------------------------------------------
CalIdle == [year |-> 2024, month |-> 2, days |-> <<>>, leap |-> <<>>]

DaysInMonth ==
  /\ cal.days = <<>>
  /\ cal' = [cal EXCEPT !.days = <<daysInMonth(cal.year, cal.month)>>]
  /\ UNCHANGED toastVars

IsLeapYear ==
  /\ cal.leap = <<>>
  /\ cal' = [cal EXCEPT !.leap = <<isLeapYear(cal.year)>>]
  /\ UNCHANGED toastVars

\* ------------------------------------------------------------------------
\* Specifications
\* ------------------------------------------------------------------------
ToastInit ==
  /\ toasts = <<>>
  /\ subs = <<>>
  /\ status = [o \in Observers |-> "idle"]
  /\ reaction = [o \in Observers |-> "passive"]
  /\ timers = {}
  /\ now = 0
  /\ shown = 0
  /\ last = [op |-> "init", id |-> UnknownId, uid |-> 0, message |-> "",
             durArg |-> <<>>, ret |-> <<>>, err |-> "none", removed |-> {}]
  /\ published = <<>>
  /\ recv = [o \in Observers |-> <<>>]

Init == ToastInit /\ cal = CalIdle

\* The service without subscribers: callers show and dismiss, timers fire.
Next ==
  \/ \E a \in ShowArgs, x \in RandomSuffixes :
       shown < MaxShows /\ Success(a[1], a[2], x)
  \/ \E a \in DefaultArgs, x \in RandomSuffixes :
       shown < MaxShows /\ Error(a[1], a[2], x)
  \/ \E a \in DefaultArgs, x \in RandomSuffixes :
       shown < MaxShows /\ Warning(a[1], a[2], x)
  \/ \E a \in DefaultArgs, x \in RandomSuffixes :
       shown < MaxShows /\ Info(a[1], a[2], x)
  \/ \E id \in DismissArgs : Dismiss(id)
  \/ DismissAll
  \/ \E t \in timers : TimerFire(t)
  \/ \E t \in {now + 1} \cup {x.due : x \in timers} : Elapse(t)

Spec == Init /\ [][Next]_vars

\* The same calls with the scheduler's guarantees: time passes, and a timer
\* that is due fires.
FairNext ==
  \/ \E a \in ShowArgs, x \in RandomSuffixes :
       shown < MaxFairShows /\ Success(a[1], a[2], x)
  \/ \E a \in DefaultArgs, x \in RandomSuffixes :
       shown < MaxFairShows /\ Error(a[1], a[2], x)
  \/ \E a \in DefaultArgs, x \in RandomSuffixes :
       shown < MaxFairShows /\ Warning(a[1], a[2], x)
  \/ \E a \in DefaultArgs, x \in RandomSuffixes :
       shown < MaxFairShows /\ Info(a[1], a[2], x)
  \/ \E id \in DismissArgs : Dismiss(id)
  \/ DismissAll
  \/ \E t \in timers : TimerFire(t)
  \/ \E t \in {now + 1} \cup {x.due : x \in timers} : Elapse(t)

FairSpec ==
  /\ Init
  /\ [][FairNext]_vars
  /\ WF_vars(\E t \in {x.due : x \in timers} : Elapse(t))
  /\ \A u \in 1..MaxFairShows :
       WF_vars(\E t \in timers : t.uid = u /\ TimerFire(t))

\* The service with subscribers.  rs is the set of callbacks they may have.
ObservedCalls(rs) ==
  \/ \E a \in ShowArgs, x \in RandomSuffixes :
       shown < MaxObservedShows /\ Success(a[1], a[2], x)
  \/ \E a \in DefaultArgs, x \in RandomSuffixes :
       shown < MaxObservedShows /\ Error(a[1], a[2], x)
  \/ \E a \in DefaultArgs, x \in RandomSuffixes :
       shown < MaxObservedShows /\ Warning(a[1], a[2], x)
  \/ \E a \in DefaultArgs, x \in RandomSuffixes :
       shown < MaxObservedShows /\ Info(a[1], a[2], x)
  \/ \E id \in DismissArgs : Dismiss(id)
  \/ DismissAll
  \/ \E t \in timers : TimerFire(t)
  \/ \E t \in {now + 1} \cup {x.due : x \in timers} : Elapse(t)
  \/ \E o \in Observers, r \in rs : Subscribe(o, r)
  \/ \E o \in Observers : Unsubscribe(o)

\* subscribers that only look at what they receive
ObservedNext == ObservedCalls({"passive"})

ObservedSpec == Init /\ [][ObservedNext]_vars

\* subscribers that may call the service from inside their callback
ReentrantNext == ObservedCalls(Reactions)

ReentrantSpec == Init /\ [][ReentrantNext]_vars

\* The calendar helpers applied to every input of the bounded sets.
DateInit ==
  /\ ToastInit
  /\ cal \in [year : Years, month : 1..12, days : {<<>>}, leap : {<<>>}]

DateNext == DaysInMonth \/ IsLeapYear

DateSpec == DateInit /\ [][DateNext]_vars

\* ------------------------------------------------------------------------
\* Properties
\* ------------------------------------------------------------------------
Ids(ts) == {ts[i].id : i \in 1..Len(ts)}

PublishingOps == {"show", "dismiss", "dismissAll", "timer"}

\* C1: no two notifications of the active set have the same id.
C1_UniqueIds ==
  \A i, j \in 1..Len(toasts) : i # j => toasts[i].id # toasts[j].id

C3_DismissIdempotent ==
  [][last'.op = "dismiss" =>
       /\ last'.id \notin Ids(toasts) => toasts' = toasts
       /\ last'.err = "none"
       /\ without(toasts', last'.id) = toasts'
    ]_vars

C3_Witness ==
  /\ last.op = "dismiss"
  /\ last.removed = {}
  /\ toasts # <<>>
  /\ last.id \notin Ids(toasts)

\* C4: a notification shown with a lifetime greater than zero is eventually
\* out of the active set, and stays out.
C4_TimedToastEventuallyAbsent ==
  \A u \in 1..MaxFairShows :
    [](  (\E i \in 1..Len(toasts) : toasts[i].uid = u /\ toasts[i].duration > 0)
      => <>[](u \notin Uids(toasts)))

C4_Witness ==
  /\ last.op = "timer"
  /\ \E t \in last.removed : t.uid = last.uid /\ t.duration > 0
  /\ last.uid \notin Uids(toasts)

\* C5 (as claimed): every show returns the id of the notification it added.
C5_ShowReturnsId ==
  last.op = "show" => last.ret = <<last.id>>

\* C5 (amended): show returns nothing; the new notification, with its id, is
\* the last element of the active set.  After success("Saved") on an empty
\* set the set has one element, of category success and lifetime 4000, and
\* dismiss with that element's id empties the set.
C5_ShowReturnsVoid ==
  last.op = "show" =>
    /\ last.ret = <<>>
    /\ toasts # <<>>
    /\ LET t == toasts[Len(toasts)]
       IN /\ t.uid = last.uid
          /\ t.id = last.id
          /\ (t.type = "success" /\ last.durArg = <<>>) => t.duration = 4000
          /\ Len(toasts) = 1 => without(toasts, t.id) = <<>>

C5_Witness ==
  /\ last.op = "show"
  /\ Len(toasts) = 1
  /\ toasts[1].type = "success"
  /\ toasts[1].message = "Saved"
  /\ last.durArg = <<>>

BadArgs ==
  \/ last.message = ""
  \/ last.durArg # <<>> /\ last.durArg[1] < 0

C7_ObserverSeesChangesInOrder ==
  \A o \in Observers :
    /\ status[o] # "open" => recv[o] = <<>>
    /\ (status[o] = "open" /\ last.op = "subscribe" /\ last.uid = o) =>
         /\ recv[o] # <<>>
         /\ Tail(recv[o]) = published
         /\ published = <<>> => recv[o] = <<toasts>>
    /\ (status[o] = "open" /\ ~(last.op = "subscribe" /\ last.uid = o)) =>
         recv[o] = published

GregorianLeap(y) == (y % 4 = 0 /\ y % 100 # 0) \/ y % 400 = 0

GregorianDays(y, m) ==
  IF m = 2 THEN (IF GregorianLeap(y) THEN 29 ELSE 28)
  ELSE IF m \in {4, 6, 9, 11} THEN 30 ELSE 31

\* C9: daysInMonth(year, month) is the Gregorian length of the month,
\* daysInMonth(year, 2) = 29 exactly when isLeapYear(year), and isLeapYear
\* is the Gregorian rule.
C9_DaysInMonthGregorian ==
  /\ cal.days # <<>> => cal.days[1] = GregorianDays(cal.year, cal.month)
  /\ cal.leap # <<>> => cal.leap[1] = GregorianLeap(cal.year)
  /\ (cal.days # <<>> /\ cal.leap # <<>> /\ cal.month = 2) =>
       (cal.days[1] = 29 <=> cal.leap[1])

\* C10: a notification leaves the active set only through dismiss with its
\* own id, dismissAll, or its own timer; a timer removes at most the
\* notification it was scheduled for, and never one of lifetime 0 or less.
C10_OnlyOwnTimerRemoves ==
  \A t \in last.removed :
    \/ last.op = "dismiss" /\ t.id = last.id
    \/ last.op = "dismissAll"
    \/ last.op = "timer" /\ t.uid = last.uid /\ t.duration > 0

====
